---------------------------- MODULE Spec2Model ----------------------------
(***************************************************************************)
(* Model of the projection and simulation engine of hospital_app.py:       *)
(* calculate_metrics (the closed-form summary, lines 150-216),             *)
(* run_detailed_simulation (the day loop, lines 218-268) and the           *)
(* "Run Simulation" block that calls both (lines 570-611).                 *)
(*                                                                         *)
(* Numbers.  Staff counts, backlog, wait and arrivals are Python ints.     *)
(* The two treatment rates are Python numbers that may be fractional, so   *)
(* every quantity derived from them (daily_capacity, net_daily,            *)
(* final_backlog, current_backlog, patients_treated) is real-valued.  The  *)
(* model holds such a value x as the integer x * RateDen: rates range over *)
(* multiples of 1/RateDen and the arithmetic of the code keeps every       *)
(* derived value on that grid; such values are exact as Python floats.     *)
(* Quotients (waits, utilisation, months) are Python floats that are not   *)
(* exact.  The model holds such a float x as a record [n, d, m, a]: n/d is *)
(* the real value of the expression that computes x, and m * 2^a is what   *)
(* the float arithmetic of that expression adds to it when n/d is a        *)
(* half-integer (k + 1/2), the one case in which the rounding the code     *)
(* applies next (round(x, 0)) depends on it.  When n/d is no half-integer, *)
(* m = 0: x is within 2^-50 * |n/d| of n/d and rounds as n/d does.         *)
(*                                                                         *)
(* Rates off that grid (0.1, 0.3: any float a CSV upload holds) make every *)
(* derived value a float that is rounded at each operation.  SpecFloat     *)
(* models the day loop and the closed form on such rates in IEEE 754       *)
(* double arithmetic, operation by operation.                              *)
(***************************************************************************)
EXTENDS Integers, Sequences, FiniteSets

---------------------------------------------------------------------------
(* Bounds of the input domain.                                             *)

\* The rates are multiples of 1/RateDen.
RateDen == 2
\* Rate numerators range over 0..MaxRateNum (rates 0 .. MaxRateNum/RateDen).
MaxRateNum == 2
\* doctors and non_doctors range over 1..MaxStaff.
MaxStaff == 2
\* initial_backlog ranges over 0..MaxBacklog.
MaxBacklog == 2
\* initial_wait ranges over 0..MaxWait.
MaxWait == 1
\* daily_arrivals ranges over 1..MaxArrivals.
MaxArrivals == 2
\* simulation_days ranges over 0..MaxDays.
MaxDays == 3

\* The slider's default horizon (value=180), used by the two scenarios.
DefaultDays == 180

\* The slider's least horizon, line 371.
ShortDays == 30

---------------------------------------------------------------------------
(* Python's numeric conversions, on a quotient n/d of integers.            *)

Abs(x) == IF x < 0 THEN -x ELSE x

Max(a, b) == IF a >= b THEN a ELSE b

Min(a, b) == IF a <= b THEN a ELSE b

\* floor(n/d) for d # 0
FloorDiv(n, d) ==
    LET nn == IF d < 0 THEN -n ELSE n
        dd == Abs(d)
    IN  IF nn >= 0 THEN nn \div dd ELSE -(((-nn) + dd - 1) \div dd)

\* int(x): truncation toward zero, x = n/d, d # 0
PyInt(n, d) ==
    LET nn == IF d < 0 THEN -n ELSE n
        dd == Abs(d)
    IN  IF nn >= 0 THEN nn \div dd ELSE -((-nn) \div dd)

\* int(round(x, 0)) and "{x:.0f}": round half to even, x = n/d, d # 0
PyRound(n, d) ==
    LET nn == IF d < 0 THEN -n ELSE n
        dd == Abs(d)
        q  == FloorDiv(nn, dd)
        r  == nn - q * dd
    IN  IF 2 * r < dd THEN q
        ELSE IF 2 * r > dd THEN q + 1
        ELSE IF q % 2 = 0 THEN q ELSE q + 1

---------------------------------------------------------------------------
(* Python float arithmetic (IEEE 754 binary64, round to nearest, ties to   *)
(* even) on the float expressions of the code, in integers below 2^31.     *)

\* The bits of a binary64 significand after the leading one.
MantissaBits == 52

RECURSIVE Pow2(_)
Pow2(k) == IF k = 0 THEN 1 ELSE IF k < 4 THEN 2 * Pow2(k - 1) ELSE 16 * Pow2(k - 4)

RECURSIVE LogUp(_, _)
\* the largest e >= 0 with d * 2^e <= n, for 0 < d <= n
LogUp(n, d) == IF (n \div 2) >= d THEN 1 + LogUp(n \div 2, d) ELSE 0

RECURSIVE LogDown(_, _)
\* the smallest j >= 1 with n * 2^j >= d, for 0 < n < d
LogDown(n, d) ==
    LET half == (d + 1) \div 2
    IN  IF n < half THEN 1 + LogDown(n, half) ELSE 1

\* the binary exponent e of n/d: 2^e <= n/d < 2^(e+1), n > 0, d > 0
FloorLog2(n, d) == IF n >= d THEN LogUp(n, d) ELSE -LogDown(n, d)

RECURSIVE ShiftMod(_, _, _)
\* (x * 2^s) mod dd, for 0 <= x < dd
ShiftMod(x, s, dd) ==
    IF s = 0 THEN x
    ELSE IF s < 4 THEN (2 * ShiftMod(x, s - 1, dd)) % dd
    ELSE (16 * ShiftMod(x, s - 4, dd)) % dd

\* The float n / d for integers n > 0, d > 0: with e the exponent of n/d it
\* is n/d + delta / (d * 2^(52 - e)), the nearest multiple of 2^(e - 52)
\* to n/d, a tie going to the even significand.
DivisionError(n, d) ==
    LET e   == FloorLog2(n, d)
        s   == MantissaBits - e
        r   == ShiftMod(n % d, s, d)
        odd == ShiftMod(n % (2 * d), s, 2 * d) >= d
        up  == 2 * r > d \/ (2 * r = d /\ odd)
    IN  [e |-> e, delta |-> IF up THEN d - r ELSE -r]

\* n/d is k + 1/2 for an integer k (d > 0)
IsHalfInteger(n, d) == (2 * n) % d = 0 /\ ((2 * n) \div d) % 2 = 1

\* The float c * (n / d) (equally (n / d) * c), c, n, d integers, d # 0: the
\* division is rounded, then the product is.
FloatTimesQuotient(c, n, d) ==
    LET nn  == IF d < 0 THEN -n ELSE n
        dd  == Abs(d)
        num == c * nn
    IN  IF ~IsHalfInteger(num, dd) THEN [n |-> num, d |-> dd, m |-> 0, a |-> 0]
        ELSE LET ca  == Abs(c)
                 na  == Abs(nn)
                 dv  == DivisionError(na, dd)
                 d1  == (ca * dv.delta) \div dd
                 eq  == FloorLog2(ca * na, dd)
                 t   == IF d1 < 0 /\ 2 * ca * na = dd
                        THEN eq - dv.e - 1 ELSE eq - dv.e
                 m   == PyRound(d1, Pow2(t))
             IN  IF m = 0 THEN [n |-> num, d |-> dd, m |-> 0, a |-> 0]
                 ELSE [n |-> num, d |-> dd,
                       m |-> IF num < 0 THEN -m ELSE m,
                       a |-> t - MantissaBits + dv.e]

\* The float x - w for a float x and an integer w.
FloatMinusInt(x, w) ==
    LET nh == x.n - w * x.d
    IN  IF x.m = 0 THEN [n |-> nh, d |-> x.d, m |-> 0, a |-> 0]
        ELSE LET eh == FloorLog2(Abs(nh), x.d)
                 b  == IF 2 * Abs(nh) = x.d /\ ((nh > 0) # (x.m > 0))
                       THEN eh - MantissaBits - 1 ELSE eh - MantissaBits
                 mm == IF x.a >= b THEN x.m ELSE PyRound(x.m, Pow2(b - x.a))
             IN  IF mm = 0 THEN [n |-> nh, d |-> x.d, m |-> 0, a |-> 0]
                 ELSE [n |-> nh, d |-> x.d, m |-> mm,
                       a |-> IF x.a >= b THEN x.a ELSE b]

\* The float n / d of one division: a half-integer n/d is a float itself.
FloatQuotient(n, d) ==
    [n |-> IF d < 0 THEN -n ELSE n, d |-> Abs(d), m |-> 0, a |-> 0]

\* The float 0.
FloatZero == [n |-> 0, d |-> 1, m |-> 0, a |-> 0]

\* int(round(x, 0)) of a float x
PyRoundFloat(x) ==
    IF x.m = 0 THEN PyRound(x.n, x.d)
    ELSE IF x.m > 0 THEN FloorDiv(x.n, x.d) + 1
    ELSE FloorDiv(x.n, x.d)

---------------------------------------------------------------------------
(* calculate_metrics, lines 150-216.  Arguments carry the source's names;  *)
(* doctor_rate and non_doctor_rate are rate numerators (rate * RateDen).   *)

\* line 161 (scaled by RateDen)
DailyCapacity(doctors, non_doctors, doctor_rate, non_doctor_rate) ==
    doctors * doctor_rate + non_doctors * non_doctor_rate

\* line 162 (scaled by RateDen)
NetDaily(daily_arrivals, daily_capacity) ==
    daily_arrivals * RateDen - daily_capacity

\* Mutant of FinalBacklog: the linear projection without max(0, .).
FinalBacklogUnclamped(initial_backlog, net_daily, simulation_days) ==
    initial_backlog * RateDen + net_daily * simulation_days

\* Mutant of FinalBacklog: one day more than the horizon is projected.
FinalBacklogDayAhead(initial_backlog, net_daily, simulation_days) ==
    Max(0, initial_backlog * RateDen + net_daily * (simulation_days + 1))

\* line 165 (scaled by RateDen)
FinalBacklog(initial_backlog, net_daily, simulation_days) ==
    Max(0, initial_backlog * RateDen + net_daily * simulation_days)

\* line 166 (scaled by RateDen)
BacklogChange(final_backlog, initial_backlog) ==
    final_backlog - initial_backlog * RateDen

\* Mutant of FinalWait: the else branch keeps the initial wait.
FinalWaitKeepsInitial(final_backlog, initial_backlog, initial_wait) ==
    IF final_backlog > 0 /\ initial_backlog > 0
    THEN FloatTimesQuotient(initial_wait, final_backlog, initial_backlog * RateDen)
    ELSE FloatQuotient(initial_wait, 1)

\* lines 169-172: the float final_wait
FinalWait(final_backlog, initial_backlog, initial_wait) ==
    IF final_backlog > 0 /\ initial_backlog > 0
    THEN FloatTimesQuotient(initial_wait, final_backlog, initial_backlog * RateDen)
    ELSE FloatZero

\* line 173: the float wait_change
WaitChange(final_wait, initial_wait) == FloatMinusInt(final_wait, initial_wait)

\* Mutant of TimeToClear: the two texts of line 177 exchanged.
TimeToClearSwapped(net_daily, initial_backlog) ==
    IF net_daily >= 0 \/ initial_backlog = 0
    THEN [label   |-> IF initial_backlog > 0 THEN "N/A" ELSE "inf (Impossible)",
          months  |-> 0,
          negzero |-> FALSE,
          inf     |-> TRUE, n |-> 0, d |-> 1]
    ELSE LET k == PyRound(initial_backlog * RateDen, 30 * Abs(net_daily))
         IN  [label   |-> "months",
              months  |-> k,
              negzero |-> initial_backlog < 0 /\ k = 0,
              inf     |-> FALSE,
              n       |-> initial_backlog * RateDen, d |-> 30 * Abs(net_daily)]

\* Mutant of TimeToClear: line 181 left out, the days are taken for months.
TimeToClearInDays(net_daily, initial_backlog) ==
    IF net_daily >= 0 \/ initial_backlog = 0
    THEN [label   |-> IF initial_backlog > 0 THEN "inf (Impossible)" ELSE "N/A",
          months  |-> 0,
          negzero |-> FALSE,
          inf     |-> TRUE, n |-> 0, d |-> 1]
    ELSE LET k == PyRound(initial_backlog * RateDen, Abs(net_daily))
         IN  [label   |-> "months",
              months  |-> k,
              negzero |-> initial_backlog < 0 /\ k = 0,
              inf     |-> FALSE,
              n       |-> initial_backlog * RateDen, d |-> Abs(net_daily)]

\* lines 176-182: time_to_clear and months_to_clear.  months_to_clear is
\* float('inf') (inf = TRUE) or the quotient n/d; the text "<k> months" is
\* held as label "months" with k in months, and negzero says that the text
\* is "-0 months" (a negative quotient that rounds to zero).  The status
\* and time-to-clear texts are held without their non-ASCII glyphs.
TimeToClear(net_daily, initial_backlog) ==
    IF net_daily >= 0 \/ initial_backlog = 0
    THEN [label   |-> IF initial_backlog > 0 THEN "inf (Impossible)" ELSE "N/A",
          months  |-> 0,
          negzero |-> FALSE,
          inf     |-> TRUE, n |-> 0, d |-> 1]
    ELSE LET k == PyRound(initial_backlog * RateDen, 30 * Abs(net_daily))
         IN  [label   |-> "months",
              months  |-> k,
              negzero |-> initial_backlog < 0 /\ k = 0,
              inf     |-> FALSE,
              n       |-> initial_backlog * RateDen, d |-> 30 * Abs(net_daily)]

\* Mutant of Status: rule 2 tested before rule 1.
StatusImprovingFirst(final_backlog, initial_backlog) ==
    IF final_backlog < initial_backlog * RateDen THEN "Improving"
    ELSE IF 2 * final_backlog < initial_backlog * RateDen THEN "Excellent"
    ELSE IF 2 * final_backlog > 3 * initial_backlog * RateDen THEN "Critical"
    ELSE "Alert"

\* Mutant of Status: rule 2 with <= in place of <.
StatusNonStrict(final_backlog, initial_backlog) ==
    IF 2 * final_backlog < initial_backlog * RateDen THEN "Excellent"
    ELSE IF final_backlog <= initial_backlog * RateDen THEN "Improving"
    ELSE IF 2 * final_backlog > 3 * initial_backlog * RateDen THEN "Critical"
    ELSE "Alert"

\* Mutant of Status: the factors 0.5 and 1.5 exchanged.
StatusFactorsExchanged(final_backlog, initial_backlog) ==
    IF 2 * final_backlog < 3 * initial_backlog * RateDen THEN "Excellent"
    ELSE IF final_backlog < initial_backlog * RateDen THEN "Improving"
    ELSE IF 2 * final_backlog > initial_backlog * RateDen THEN "Critical"
    ELSE "Alert"

\* lines 185-196: final_backlog < initial_backlog * 0.5, < initial_backlog,
\* > initial_backlog * 1.5, else; both sides multiplied by 2 * RateDen.
Status(final_backlog, initial_backlog) ==
    IF 2 * final_backlog < initial_backlog * RateDen THEN "Excellent"
    ELSE IF final_backlog < initial_backlog * RateDen THEN "Improving"
    ELSE IF 2 * final_backlog > 3 * initial_backlog * RateDen THEN "Critical"
    ELSE "Alert"

\* lines 186-196: status_class
StatusClass(status) ==
    IF status = "Excellent" THEN "good"
    ELSE IF status = "Critical" THEN "critical"
    ELSE "warning"

\* line 213: daily_arrivals / daily_capacity raises ZeroDivisionError
UtilisationRaises(daily_arrivals, daily_capacity) == daily_capacity = 0

\* Mutant of Utilisation: int() without round().
UtilisationTruncated(daily_arrivals, daily_capacity) ==
    PyInt(daily_arrivals * RateDen * 100, daily_capacity)

\* line 213: int(round((daily_arrivals / daily_capacity) * 100, 0))
Utilisation(daily_arrivals, daily_capacity) ==
    PyRoundFloat(FloatTimesQuotient(100, daily_arrivals * RateDen, daily_capacity))

\* Whether the call raises (the only raising expression is line 213).
MetricsRaises(c, simulation_days) ==
    UtilisationRaises(c.DailyArrivals,
        DailyCapacity(c.Doctors, c.NonDoctors, c.DoctorRate, c.NonDoctorRate))

\* lines 198-216: the returned dict.  DailyCapacity and NetDaily are the
\* unrounded values (scaled by RateDen); the other numbers are integers.
MetricsRecord(c, simulation_days) ==
    LET daily_capacity == DailyCapacity(c.Doctors, c.NonDoctors,
                                        c.DoctorRate, c.NonDoctorRate)
        net_daily      == NetDaily(c.DailyArrivals, daily_capacity)
        final_backlog  == FinalBacklog(c.InitialBacklog, net_daily, simulation_days)
        backlog_change == BacklogChange(final_backlog, c.InitialBacklog)
        final_wait     == FinalWait(final_backlog, c.InitialBacklog, c.InitialWait)
        wait_change    == WaitChange(final_wait, c.InitialWait)
        ttc            == TimeToClear(net_daily, c.InitialBacklog)
        status         == Status(final_backlog, c.InitialBacklog)
    IN  [Specialty      |-> c.Specialty,
         Doctors        |-> c.Doctors,
         NonDoctors     |-> c.NonDoctors,
         DailyCapacity  |-> daily_capacity,
         DailyArrivals  |-> c.DailyArrivals,
         NetDaily       |-> net_daily,
         InitialBacklog |-> c.InitialBacklog,
         FinalBacklog   |-> PyInt(final_backlog, RateDen),
         BacklogChange  |-> PyInt(backlog_change, RateDen),
         InitialWait    |-> c.InitialWait,
         FinalWait      |-> PyRoundFloat(final_wait),
         WaitChange     |-> PyRoundFloat(wait_change),
         TimeToClear    |-> [label |-> ttc.label, months |-> ttc.months,
                             negzero |-> ttc.negzero],
         MonthsToClear  |-> [inf |-> ttc.inf, n |-> ttc.n, d |-> ttc.d],
         Utilisation    |-> Utilisation(c.DailyArrivals, daily_capacity),
         Status         |-> status,
         StatusClass    |-> StatusClass(status)]

---------------------------------------------------------------------------
(* run_detailed_simulation, lines 218-268: one day of the loop.            *)

\* line 240 (scaled by RateDen)
SimDailyCapacity(doctors, non_doctors, doctor_rate, non_doctor_rate) ==
    doctors * doctor_rate + non_doctors * non_doctor_rate

\* lines 246-248: current_backlog / daily_capacity raises ZeroDivisionError
CurrentWaitRaises(initial_backlog, backlog, daily_capacity) ==
    initial_backlog = 0 /\ backlog > 0 /\ daily_capacity = 0

\* Mutant of CurrentWait: the wait is taken from the backlog left after the
\* day's treatment.
CurrentWaitAfterTreatment(initial_backlog, initial_wait, backlog, daily_capacity) ==
    LET left == backlog - Min(daily_capacity, backlog)
    IN  IF initial_backlog = 0 /\ left > 0
        THEN FloatQuotient(left, daily_capacity)
        ELSE IF left > 0 /\ initial_backlog > 0
        THEN FloatTimesQuotient(initial_wait, left, initial_backlog * RateDen)
        ELSE FloatZero

\* lines 246-252: the float current_wait (backlog is scaled)
CurrentWait(initial_backlog, initial_wait, backlog, daily_capacity) ==
    IF initial_backlog = 0 /\ backlog > 0
    THEN FloatQuotient(backlog, daily_capacity)
    ELSE IF backlog > 0 /\ initial_backlog > 0
    THEN FloatTimesQuotient(initial_wait, backlog, initial_backlog * RateDen)
    ELSE FloatZero

\* Mutant of PatientsTreated: the whole capacity is used, backlog or not.
PatientsTreatedUnclamped(daily_capacity, backlog) == daily_capacity

\* Mutant of PatientsTreated: the whole backlog is treated, capacity or not.
PatientsTreatedWholeBacklog(daily_capacity, backlog) == backlog

\* Mutant of PatientsTreated: max in place of min.
PatientsTreatedLarger(daily_capacity, backlog) == Max(daily_capacity, backlog)

\* line 256 (scaled by RateDen)
PatientsTreated(daily_capacity, backlog) == Min(daily_capacity, backlog)

\* Mutant of NextBacklog: line 258 left out, the arrivals are not added.
NextBacklogNoArrivals(backlog, treated, daily_arrivals) == backlog - treated

\* lines 257-258 (scaled by RateDen)
NextBacklog(backlog, treated, daily_arrivals) ==
    (backlog - treated) + daily_arrivals * RateDen

\* lines 260-266: the appended row
DailyRecord(specialty, d, backlog, wait, treated) ==
    [Specialty       |-> specialty,
     Day             |-> d,
     Backlog         |-> PyInt(backlog, RateDen),
     WaitTime        |-> PyRoundFloat(wait),
     PatientsTreated |-> PyInt(treated, RateDen)]

---------------------------------------------------------------------------
(* The requests the engine is run on.                                      *)

\* The first two keys of SPECIALTY_CONFIG (lines 385, 389): dict keys are
\* unique, so the specialties of one request carry distinct names.
SpecialtyNames == <<"Dermatology", "Anaesthesia">>

\* A row of config_df (lines 591-603); the two rates are rate numerators.
Config(name, d, nd, dr, ndr, ib, iw, da) ==
    [Specialty      |-> name,
     Doctors        |-> d,
     NonDoctors     |-> nd,
     DoctorRate     |-> dr,
     NonDoctorRate  |-> ndr,
     InitialBacklog |-> ib,
     InitialWait    |-> iw,
     DailyArrivals  |-> da]

\* The range constraints of the data model (spec section 3); the widgets of
\* lines 529-566 enforce those on the integer fields, nothing enforces those
\* on the rates (lines 132-133, 543-544).
Valid(c) ==
    /\ c.Doctors >= 1
    /\ c.NonDoctors >= 1
    /\ c.DoctorRate >= 0
    /\ c.NonDoctorRate >= 0
    /\ c.InitialBacklog >= 0
    /\ c.InitialWait >= 0
    /\ c.DailyArrivals >= 1

ValidConfigs(name) ==
    { Config(name, d, nd, dr, ndr, ib, iw, da) :
        d \in 1..MaxStaff, nd \in 1..MaxStaff,
        dr \in 0..MaxRateNum, ndr \in 0..MaxRateNum,
        ib \in 0..MaxBacklog, iw \in 0..MaxWait, da \in 1..MaxArrivals }

\* One member of staff of each kind, only doctors treating.
SmallConfigs(name) ==
    { c \in ValidConfigs(name) :
        /\ c.Doctors = 1 /\ c.NonDoctors = 1
        /\ c.NonDoctorRate = 0 /\ c.InitialWait = MaxWait }

\* A small config with one field moved just outside its range.
InvalidConfigs(name) ==
    UNION { { [c EXCEPT !.Doctors = 0],
              [c EXCEPT !.NonDoctors = 0],
              [c EXCEPT !.DoctorRate = -1],
              [c EXCEPT !.NonDoctorRate = -1],
              [c EXCEPT !.InitialBacklog = -1],
              [c EXCEPT !.InitialWait = -1],
              [c EXCEPT !.DailyArrivals = 0] } : c \in SmallConfigs(name) }

\* Scenario A: the Dermatology defaults, lines 385-388.
ScenarioA == Config("Dermatology", 6, 2, 18 * RateDen, 12 * RateDen, 1100, 65, 142)

\* Scenario B: the ICU defaults, lines 461-464.
ScenarioB == Config("ICU", 10, 20, 8 * RateDen, 4 * RateDen, 870, 2, 155)

\* Scenario C: the Genetics defaults, lines 423-426.  The waits of days 30,
\* 88 and 146 are half-integers in exact arithmetic (46.5, 49.5, 52.5).
ScenarioC == Config("Genetics", 1, 2, 4 * RateDen, 3 * RateDen, 870, 45, 11)

\* Scenario D: the Paed Surg defaults, lines 473-476.  The wait of day 89 is
\* 31.5 in exact arithmetic.
ScenarioD == Config("Paed Surg", 2, 3, 4 * RateDen, 3 * RateDen, 880, 45, 14)

\* Scenarios E and F: the Gastroenterology defaults, lines 443-446, the
\* arrivals set to 44 and to 46 (the widget of lines 560-566).  Over
\* ShortDays the final wait is 46.5 and 49.5 in exact arithmetic.
ScenarioE == Config("Gastroenterology", 4, 3, 7 * RateDen, 5 * RateDen, 900, 45, 44)

ScenarioF == Config("Gastroenterology", 4, 3, 7 * RateDen, 5 * RateDen, 900, 45, 46)

\* Scenarios G and H: the ICU defaults, lines 461-464, the arrivals set to
\* 196 and to 92: the utilisation is 122.5 and 57.5 in exact arithmetic.
ScenarioG == Config("ICU", 10, 20, 8 * RateDen, 4 * RateDen, 870, 2, 196)

ScenarioH == Config("ICU", 10, 20, 8 * RateDen, 4 * RateDen, 870, 2, 92)

\* The horizons: the slider (line 369) gives 30..365, the functions take any
\* integer; range() of a horizon <= 0 is empty (line 243), -1 stands for those.
Horizons == (-1)..MaxDays

Requests ==
    LET days == Horizons
        n1   == SpecialtyNames[1]
        n2   == SpecialtyNames[2]
    IN  {[configs |-> <<>>, days |-> h] : h \in days}
        \cup {[configs |-> <<c>>, days |-> h] :
                c \in ValidConfigs(n1) \cup InvalidConfigs(n1), h \in days}
        \cup {[configs |-> <<c1, c2>>, days |-> h] :
                c1 \in SmallConfigs(n1), c2 \in SmallConfigs(n2), h \in days}
        \cup {[configs |-> <<c>>, days |-> DefaultDays] :
                c \in {ScenarioA, ScenarioB, ScenarioC, ScenarioD, ScenarioG, ScenarioH}}
        \cup {[configs |-> <<c>>, days |-> ShortDays] : c \in {ScenarioE, ScenarioF}}

---------------------------------------------------------------------------
(* State.                                                                  *)

VARIABLES
    user_config,       \* the request's configs, in request order (lines 525-567)
    simulation_days,   \* the horizon (line 369)
    pc,                \* "metrics": in the loop of lines 574-586;
                       \* "simulate": in run_detailed_simulation;
                       \* "done": the tables are returned; "raised": an exception
    results,           \* the summary rows appended so far (lines 573, 586)
    detailed_results,  \* the daily rows appended so far (lines 228, 260)
    row,               \* index of the config the simulator is at (line 230)
    day,               \* days of that config simulated so far (line 243)
    current_backlog,   \* line 241, 257-258 (scaled by RateDen)
    current_wait,      \* lines 246-252, a float [n, d, m, a]
    patients_treated,  \* line 256 (scaled by RateDen)
    raised,            \* the exception raised, "none" when none
    entry,             \* the entry point of the calls: "metrics" or "simulate"
    calls,             \* the number of calls started so far
    alone,             \* 0: the call has the whole request; i: only its config i
    first,             \* the request, and how the first call on it ended
    clamped            \* history: on some day so far of the config at `row`
                       \* line 256 treated less than daily_capacity

vars == <<user_config, simulation_days, pc, results, detailed_results, row,
          day, current_backlog, current_wait, patients_treated, raised,
          entry, calls, alone, first, clamped>>

callvars == <<entry, calls, alone, first>>

\* The engine is entered at the "Run Simulation" block (lines 570-611), which
\* calls calculate_metrics per specialty and then run_detailed_simulation,
\* or at run_detailed_simulation itself.
FirstCall(reqs) ==
    /\ \E req \in reqs :
         /\ user_config = req.configs
         /\ simulation_days = req.days
    /\ pc \in {"metrics", "simulate"}
    /\ results = <<>>
    /\ detailed_results = <<>>
    /\ row = 0
    /\ day = 0
    /\ current_backlog = 0
    /\ current_wait = FloatZero
    /\ patients_treated = 0
    /\ raised = "none"
    /\ entry = pc
    /\ calls = 1
    /\ alone = 0
    /\ first = [config |-> user_config, pc |-> "none", raised |-> "none",
                results |-> <<>>, detail |-> <<>>]
    /\ clamped = FALSE

Init == FirstCall(Requests)

\* lines 574-586: one pass of the loop, the call of calculate_metrics
CalculateMetrics ==
    /\ pc = "metrics"
    /\ Len(results) < Len(user_config)
    /\ LET c == user_config[Len(results) + 1]
       IN  IF MetricsRaises(c, simulation_days)
           THEN /\ pc' = "raised"
                /\ raised' = "ZeroDivisionError"
                /\ UNCHANGED results
           ELSE /\ results' = Append(results, MetricsRecord(c, simulation_days))
                /\ UNCHANGED <<pc, raised>>
    /\ UNCHANGED <<user_config, simulation_days, detailed_results, row, day,
                   current_backlog, current_wait, patients_treated, clamped>>
    /\ UNCHANGED callvars

\* lines 588-605: the loop is over, run_detailed_simulation is called
CallSimulation ==
    /\ pc = "metrics"
    /\ Len(results) = Len(user_config)
    /\ pc' = "simulate"
    /\ UNCHANGED <<user_config, simulation_days, results, detailed_results, row,
                   day, current_backlog, current_wait, patients_treated, raised,
                   clamped>>
    /\ UNCHANGED callvars

\* line 243: for day in range(simulation_days) has a next value after d days
DayLoopContinues(d, horizon) == d < horizon

\* The inner loop of the config at `row` is over (or no config was started).
RowFinished == row = 0 \/ ~DayLoopContinues(day, simulation_days)

\* line 241: current_backlog = initial_backlog
StartBacklog(initial_backlog) == initial_backlog * RateDen

\* lines 230-241: the next config is read, current_backlog starts over
NextSpecialty ==
    /\ pc = "simulate"
    /\ RowFinished
    /\ row < Len(user_config)
    /\ row' = row + 1
    /\ day' = 0
    /\ current_backlog' = StartBacklog(user_config[row + 1].InitialBacklog)
    /\ clamped' = FALSE
    /\ UNCHANGED <<user_config, simulation_days, pc, results, detailed_results,
                   current_wait, patients_treated, raised>>
    /\ UNCHANGED callvars

\* lines 243-266: one day of the config at `row`
SimulateDay ==
    /\ pc = "simulate"
    /\ row >= 1
    /\ DayLoopContinues(day, simulation_days)
    /\ LET c == user_config[row]
           daily_capacity == SimDailyCapacity(c.Doctors, c.NonDoctors,
                                              c.DoctorRate, c.NonDoctorRate)
       IN  IF CurrentWaitRaises(c.InitialBacklog, current_backlog, daily_capacity)
           THEN /\ pc' = "raised"
                /\ raised' = "ZeroDivisionError"
                /\ UNCHANGED <<detailed_results, day, current_backlog,
                               current_wait, patients_treated, clamped>>
           ELSE LET wait    == CurrentWait(c.InitialBacklog, c.InitialWait,
                                           current_backlog, daily_capacity)
                    treated == PatientsTreated(daily_capacity, current_backlog)
                    backlog == NextBacklog(current_backlog, treated, c.DailyArrivals)
                IN  /\ current_wait' = wait
                    /\ patients_treated' = treated
                    /\ current_backlog' = backlog
                    /\ clamped' = (clamped \/ treated < daily_capacity)
                    /\ day' = day + 1
                    /\ detailed_results' = Append(detailed_results,
                           DailyRecord(c.Specialty, day + 1, backlog, wait, treated))
                    /\ UNCHANGED <<pc, raised>>
    /\ UNCHANGED <<user_config, simulation_days, results, row>>
    /\ UNCHANGED callvars

\* line 268: the table is returned (and stored, lines 608-611)
ReturnTables ==
    /\ pc = "simulate"
    /\ RowFinished
    /\ row = Len(user_config)
    /\ pc' = "done"
    /\ UNCHANGED <<user_config, simulation_days, results, detailed_results, row,
                   day, current_backlog, current_wait, patients_treated, raised,
                   clamped>>
    /\ UNCHANGED callvars

Next ==
    \/ CalculateMetrics
    \/ CallSimulation
    \/ NextSpecialty
    \/ SimulateDay
    \/ ReturnTables

Spec == Init /\ [][Next]_vars

---------------------------------------------------------------------------
(* Repeated calls: the engine is called again after a call has ended, on   *)
(* the same request or on one config of it alone.                          *)

\* How many calls are followed.
MaxCalls == 3

\* The configs of the requests that are called more than once.
CallConfigs(name) ==
    {Config(name, d, 1, dr, 0, ib, MaxWait, 1) :
        d \in {1, MaxStaff}, dr \in {0, 1, MaxRateNum}, ib \in {0, MaxBacklog}}

CallRequests ==
    {[configs |-> <<>>, days |-> h] : h \in Horizons}
    \cup {[configs |-> <<c1, c2>>, days |-> h] :
            c1 \in CallConfigs(SpecialtyNames[1]),
            c2 \in CallConfigs(SpecialtyNames[2]), h \in Horizons}

InitCalls == FirstCall(CallRequests)

\* line 573: results = []
FreshResults == <<>>

\* Mutant of FreshDetail: the list outlives the call.
KeptDetail == detailed_results

\* line 228: detailed_results = []
FreshDetail == <<>>

\* How the call that has just ended ended.
Outcome ==
    [config |-> first.config, pc |-> pc, raised |-> raised,
     results |-> results, detail |-> detailed_results]

\* The locals a new call starts with (lines 573, 228, 230); the locals the
\* code assigns before it reads them keep whatever the last call left.
StartCall(configs) ==
    /\ pc \in {"done", "raised"}
    /\ calls < MaxCalls
    /\ calls' = calls + 1
    /\ first' = IF calls = 1 THEN Outcome ELSE first
    /\ user_config' = configs
    /\ pc' = entry
    /\ results' = FreshResults
    /\ detailed_results' = FreshDetail
    /\ row' = 0
    /\ day' = 0
    /\ raised' = "none"
    /\ UNCHANGED <<simulation_days, entry, current_backlog, current_wait,
                   patients_treated, clamped>>

\* lines 570-605: the engine is called again on the whole request
RunAgain ==
    /\ StartCall(first.config)
    /\ alone' = 0

\* lines 570-605: the engine is called on config i of the request alone
RunAlone(i) ==
    /\ i \in 1..Len(first.config)
    /\ StartCall(<<first.config[i]>>)
    /\ alone' = i

NextCalls ==
    \/ Next
    \/ RunAgain
    \/ \E i \in 1..2 : RunAlone(i)

SpecCalls == InitCalls /\ [][NextCalls]_vars

---------------------------------------------------------------------------
(* Python floats in full.  The rates of a CSV upload are any float (lines  *)
(* 132-133), so daily_capacity and every value derived from it is a float  *)
(* whose arithmetic rounds: an IEEE 754 double, held here as               *)
(* [s, m, e] = s * m * 2^e with s in {1, -1} and m a natural number of     *)
(* exactly SignificandBits bits (m = 0, e = 0, s = 1 for zero).  m is held *)
(* as its digits to the base Limb, the lowest first and the highest not 0, *)
(* so that no intermediate value exceeds 2^31.  Every operation computes   *)
(* the exact result and rounds it to the nearest double, ties to the even  *)
(* significand.  Exponent overflow, subnormals, infinities and NaN are out *)
(* of reach of the values of this model.                                   *)

\* The base of the digits of a natural number, 2^15.
Limb == 32768

\* A double has a significand of 53 bits.
SignificandBits == 53

Digit(a, i) == IF i >= 1 /\ i <= Len(a) THEN a[i] ELSE 0

\* the highest digits that are 0 taken off
Trim(a) ==
    LET n == CHOOSE k \in 0..Len(a) :
                 /\ k = 0 \/ a[k] # 0
                 /\ \A j \in (k + 1)..Len(a) : a[j] = 0
    IN  SubSeq(a, 1, n)

\* the natural number k < 2^31 as digits
NatOfInt(k) == Trim(<<k % Limb, (k \div Limb) % Limb, k \div (Limb * Limb)>>)

\* the natural number a < 2^31 as an integer
IntOfNat(a) == Digit(a, 1) + Limb * Digit(a, 2) + Limb * Limb * Digit(a, 3)

\* The carry into digit i of a + b: some lower digit sum passes the base and
\* every digit sum between hands a carry on.
AddCarry(a, b, i) ==
    IF \E j \in 1..(i - 1) :
           /\ Digit(a, j) + Digit(b, j) >= Limb
           /\ \A t \in (j + 1)..(i - 1) : Digit(a, t) + Digit(b, t) = Limb - 1
    THEN 1 ELSE 0

NatAdd(a, b) ==
    Trim([i \in 1..(Max(Len(a), Len(b)) + 1) |->
             (Digit(a, i) + Digit(b, i) + AddCarry(a, b, i)) % Limb])

\* The borrow from digit i of a - b.
SubBorrow(a, b, i) ==
    IF \E j \in 1..(i - 1) :
           /\ Digit(a, j) < Digit(b, j)
           /\ \A t \in (j + 1)..(i - 1) : Digit(a, t) = Digit(b, t)
    THEN 1 ELSE 0

\* a - b for a >= b
NatSub(a, b) ==
    Trim([i \in 1..Len(a) |->
             (Digit(a, i) - Digit(b, i) - SubBorrow(a, b, i)) % Limb])

\* a < b
NatLess(a, b) ==
    \/ Len(a) < Len(b)
    \/ /\ Len(a) = Len(b)
       /\ \E i \in 1..Len(a) :
             /\ a[i] < b[i]
             /\ \A j \in (i + 1)..Len(a) : a[j] = b[j]

\* a * k for 0 <= k <= Limb: every digit product is two digits, the low ones
\* and the high ones are added.
NatTimes(a, k) ==
    NatAdd(Trim([i \in 1..Len(a) |-> (a[i] * k) % Limb]),
           Trim(<<0>> \o [i \in 1..Len(a) |-> (a[i] * k) \div Limb]))

\* a * 2^k
ShiftLeft(a, k) ==
    IF a = <<>> THEN <<>>
    ELSE [i \in 1..(k \div 15) |-> 0] \o NatTimes(a, Pow2(k % 15))

\* floor(a / 2^k)
ShiftRight(a, k) ==
    LET q == k \div 15
        r == k % 15
    IN  Trim([i \in 1..(Len(a) - q) |->
                 (Digit(a, i + q) \div Pow2(r))
                     + (Digit(a, i + q + 1) % Pow2(r)) * Pow2(15 - r)])

\* bit k of a, bit 0 the lowest
Bit(a, k) == (Digit(a, (k \div 15) + 1) \div Pow2(k % 15)) % 2

\* a is a multiple of 2^k
LowBitsZero(a, k) ==
    /\ \A i \in 1..(k \div 15) : Digit(a, i) = 0
    /\ Digit(a, (k \div 15) + 1) % Pow2(k % 15) = 0

\* the number of bits of a
BitLength(a) ==
    IF a = <<>> THEN 0
    ELSE 15 * (Len(a) - 1)
           + (CHOOSE n \in 1..15 : Pow2(n - 1) <= a[Len(a)] /\ a[Len(a)] < Pow2(n))

\* The double 0.0.
DoubleZero == [s |-> 1, m |-> <<>>, e |-> 0]

\* The double nearest to s * a * 2^e, a a natural number: the rounding every
\* float operation ends with.
RoundToDouble(s, a, e) ==
    LET n == BitLength(a)
        k == n - SignificandBits
    IN  IF n = 0 THEN DoubleZero
        ELSE IF k <= 0 THEN [s |-> s, m |-> ShiftLeft(a, -k), e |-> e + k]
        ELSE LET q  == ShiftRight(a, k)
                 up == /\ Bit(a, k - 1) = 1
                       /\ (~LowBitsZero(a, k - 1) \/ Bit(a, k) = 1)
                 qq == IF up THEN NatAdd(q, <<1>>) ELSE q
             IN  IF BitLength(qq) > SignificandBits
                 THEN [s |-> s, m |-> ShiftRight(qq, 1), e |-> e + k + 1]
                 ELSE [s |-> s, m |-> qq, e |-> e + k]

\* float(k) of an int, |k| < 2^31
DoubleOfInt(k) == RoundToDouble(IF k < 0 THEN -1 ELSE 1, NatOfInt(Abs(k)), 0)

\* x < y for doubles of the same sign s = 1, compared as magnitudes
MagnitudeLess(x, y) ==
    IF x.m = <<>> THEN y.m # <<>>
    ELSE IF y.m = <<>> THEN FALSE
    ELSE x.e < y.e \/ (x.e = y.e /\ NatLess(x.m, y.m))

\* x < y
DoubleLess(x, y) ==
    IF x.s # y.s THEN x.s < y.s
    ELSE IF x.s = 1 THEN MagnitudeLess(x, y)
    ELSE MagnitudeLess(y, x)

DoubleNegate(x) == IF x.m = <<>> THEN x ELSE [x EXCEPT !.s = -x.s]

\* x + y.  With exponents more than 64 apart the smaller term is below a
\* quarter of the last bit of the larger one and the sum rounds to the latter.
DoubleAdd(x, y) ==
    IF x.m = <<>> THEN y
    ELSE IF y.m = <<>> THEN x
    ELSE IF x.e - y.e > 64 THEN x
    ELSE IF y.e - x.e > 64 THEN y
    ELSE LET e == Min(x.e, y.e)
             a == ShiftLeft(x.m, x.e - e)
             b == ShiftLeft(y.m, y.e - e)
         IN  IF x.s = y.s THEN RoundToDouble(x.s, NatAdd(a, b), e)
             ELSE IF NatLess(a, b) THEN RoundToDouble(y.s, NatSub(b, a), e)
             ELSE RoundToDouble(x.s, NatSub(a, b), e)

\* x - y
DoubleSub(x, y) == DoubleAdd(x, DoubleNegate(y))

\* float(k) * x for an int k, |k| < Limb
DoubleTimesInt(x, k) ==
    IF x.m = <<>> \/ k = 0 THEN DoubleZero
    ELSE RoundToDouble(IF k < 0 THEN -x.s ELSE x.s, NatTimes(x.m, Abs(k)), x.e)

\* The digit c < Limb with c * d <= a < (c + 1) * d, for a < Limb * d and the
\* highest digit of d at least Limb / 2: the quotient of the two highest
\* digits of a by the highest of d is c, c + 1 or c + 2.
QuotientDigit(a, d) ==
    LET n   == Len(d)
        est == Min(Limb - 1, (Digit(a, n + 1) * Limb + Digit(a, n)) \div d[n])
    IN  CHOOSE c \in Max(0, est - 2)..est :
            ~NatLess(a, NatTimes(d, c)) /\ NatLess(a, NatTimes(d, c + 1))

\* One digit more of a quotient: from floor(b / d) = p.q with p.r left to
\* floor(b * Limb / d) and what is left.
DivisionStep(p, d) ==
    LET rr == IF p.r = <<>> THEN <<>> ELSE <<0>> \o p.r
        c  == QuotientDigit(rr, d)
    IN  [q |-> Trim(<<c>> \o p.q), r |-> NatSub(rr, NatTimes(d, c))]

RECURSIVE LongDivision(_, _, _)
\* floor(a * Limb^n / d) and what is left, for a < 2 * d
LongDivision(a, d, n) ==
    IF n = 0
    THEN IF NatLess(a, d) THEN [q |-> <<>>, r |-> a] ELSE [q |-> <<1>>, r |-> NatSub(a, d)]
    ELSE CHOOSE next \in {DivisionStep(p, d) : p \in {LongDivision(a, d, n - 1)}} : TRUE

\* x / y for y # 0: the significands are shifted to a highest digit of at
\* least Limb / 2, then 60 or 61 bits of their quotient, and one more bit
\* that says whether anything is left, are rounded.
DoubleDiv(x, y) ==
    IF x.m = <<>> THEN DoubleZero
    ELSE CHOOSE z \in
             { RoundToDouble(x.s * y.s,
                             NatAdd(ShiftLeft(dv.q, 1),
                                    IF dv.r = <<>> THEN <<>> ELSE <<1>>),
                             x.e - y.e - 61) :
                 dv \in {LongDivision(ShiftLeft(x.m, 7), ShiftLeft(y.m, 7), 4)} } : TRUE

\* int(x): toward zero
DoubleInt(x) ==
    IF x.m = <<>> THEN 0
    ELSE IF x.e >= 0 THEN x.s * IntOfNat(ShiftLeft(x.m, x.e))
    ELSE x.s * IntOfNat(ShiftRight(x.m, -x.e))

\* int(round(x, 0)): to the nearest whole number, a tie to the even one
DoubleRound(x) ==
    IF x.m = <<>> \/ x.e >= 0 THEN DoubleInt(x)
    ELSE LET k  == -x.e
             q  == IntOfNat(ShiftRight(x.m, k))
             up == /\ Bit(x.m, k - 1) = 1
                   /\ (~LowBitsZero(x.m, k - 1) \/ q % 2 = 1)
         IN  x.s * (IF up THEN q + 1 ELSE q)

---------------------------------------------------------------------------
(* The engine on float rates.  A rate read from an uploaded CSV is          *)
(* float(text) (lines 132-133): here the decimal k / DecimalDen, held in    *)
(* user_config as its numerator k.  Lines 161-165 and 240-266 are computed  *)
(* as Python computes them, one rounding per operation.                     *)

\* Rates are the decimals k / DecimalDen.
DecimalDen == 10
\* Rate numerators range over 0..MaxDecimalRate.
MaxDecimalRate == 4
\* non_doctors ranges over 1..MaxFloatStaff.
MaxFloatStaff == 3
\* initial_backlog ranges over 0..MaxBacklog and LargeBacklog.
LargeBacklog == 10

\* lines 132-133: float(row['doctor_rate']), the double nearest to
\* k / DecimalDen
FloatRate(k) == DoubleDiv(DoubleOfInt(k), DoubleOfInt(DecimalDen))

\* lines 161 and 240: doctors * doctor_rate + non_doctors * non_doctor_rate
FloatDailyCapacity(doctors, non_doctors, doctor_rate, non_doctor_rate) ==
    DoubleAdd(DoubleTimesInt(doctor_rate, doctors),
              DoubleTimesInt(non_doctor_rate, non_doctors))

\* line 162: daily_arrivals - daily_capacity
FloatNetDaily(daily_arrivals, daily_capacity) ==
    DoubleSub(DoubleOfInt(daily_arrivals), daily_capacity)

\* line 165: max(0, initial_backlog + (net_daily * simulation_days))
FloatFinalBacklog(initial_backlog, net_daily, days) ==
    LET x == DoubleAdd(DoubleOfInt(initial_backlog), DoubleTimesInt(net_daily, days))
    IN  IF DoubleLess(DoubleZero, x) THEN x ELSE DoubleZero

\* lines 246-248: current_backlog / daily_capacity raises ZeroDivisionError
FloatCurrentWaitRaises(initial_backlog, backlog, daily_capacity) ==
    /\ initial_backlog = 0
    /\ DoubleLess(DoubleZero, backlog)
    /\ daily_capacity = DoubleZero

\* lines 246-252: current_wait of the day
FloatCurrentWait(initial_backlog, initial_wait, backlog, daily_capacity) ==
    IF initial_backlog = 0 /\ DoubleLess(DoubleZero, backlog)
    THEN DoubleDiv(backlog, daily_capacity)
    ELSE IF DoubleLess(DoubleZero, backlog) /\ initial_backlog > 0
         THEN DoubleTimesInt(DoubleDiv(backlog, DoubleOfInt(initial_backlog)),
                             initial_wait)
         ELSE DoubleZero

\* line 256: min(daily_capacity, current_backlog)
FloatPatientsTreated(daily_capacity, backlog) ==
    IF DoubleLess(backlog, daily_capacity) THEN backlog ELSE daily_capacity

\* lines 257-258: current_backlog -= patients_treated, then
\* current_backlog += daily_arrivals
FloatNextBacklog(backlog, treated, daily_arrivals) ==
    DoubleAdd(DoubleSub(backlog, treated), DoubleOfInt(daily_arrivals))

\* lines 260-266: the appended row
FloatDailyRecord(specialty, d, backlog, wait, treated) ==
    [Specialty       |-> specialty,
     Day             |-> d,
     Backlog         |-> DoubleInt(backlog),
     WaitTime        |-> DoubleRound(wait),
     PatientsTreated |-> DoubleInt(treated)]

\* Valid configs with decimal rates and one doctor: DoctorRate and
\* NonDoctorRate hold the numerator over DecimalDen.
FloatConfigs(name) ==
    { Config(name, d, nd, dr, ndr, ib, iw, da) :
        d \in {1}, nd \in 1..MaxFloatStaff,
        dr \in 0..MaxDecimalRate, ndr \in 0..MaxDecimalRate,
        ib \in (0..MaxBacklog) \cup {LargeBacklog}, iw \in {MaxWait},
        da \in 1..MaxArrivals }

\* daily_capacity of the config at index i, as the float of lines 161 and
\* 240: the two rates are read first, then the capacity is computed.
FloatCapacityOf(i) ==
    LET c == user_config[i]
    IN  CHOOSE x \in
            { FloatDailyCapacity(c.Doctors, c.NonDoctors, doctor_rate, non_doctor_rate) :
                doctor_rate \in {FloatRate(c.DoctorRate)},
                non_doctor_rate \in {FloatRate(c.NonDoctorRate)} } : TRUE

\* lines 607-611: run_detailed_simulation is called on one uploaded config
InitFloat ==
    /\ user_config \in { <<c>> : c \in FloatConfigs("A") }
    /\ simulation_days = MaxDays
    /\ pc = "simulate"
    /\ results = <<>>
    /\ detailed_results = <<>>
    /\ row = 0
    /\ day = 0
    /\ current_backlog = DoubleZero
    /\ current_wait = DoubleZero
    /\ patients_treated = DoubleZero
    /\ raised = "none"
    /\ entry = pc
    /\ calls = 1
    /\ alone = 0
    /\ first = [config |-> user_config, pc |-> "none", raised |-> "none",
                results |-> <<>>, detail |-> <<>>]
    /\ clamped = FALSE

\* lines 230-241: the next config is read, current_backlog starts over
FloatNextSpecialty ==
    /\ pc = "simulate"
    /\ RowFinished
    /\ row < Len(user_config)
    /\ row' = row + 1
    /\ day' = 0
    /\ current_backlog' = DoubleOfInt(user_config[row + 1].InitialBacklog)
    /\ clamped' = FALSE
    /\ UNCHANGED <<user_config, simulation_days, pc, results, detailed_results,
                   current_wait, patients_treated, raised>>
    /\ UNCHANGED callvars

\* lines 243-266: one day of the config at `row`
FloatSimulateDay ==
    /\ pc = "simulate"
    /\ row >= 1
    /\ DayLoopContinues(day, simulation_days)
    /\ \E daily_capacity \in {FloatCapacityOf(row)} :
         LET c == user_config[row]
         IN  IF FloatCurrentWaitRaises(c.InitialBacklog, current_backlog, daily_capacity)
             THEN /\ pc' = "raised"
                  /\ raised' = "ZeroDivisionError"
                  /\ UNCHANGED <<detailed_results, day, current_backlog,
                                 current_wait, patients_treated, clamped>>
             ELSE \E wait \in {FloatCurrentWait(c.InitialBacklog, c.InitialWait,
                                                current_backlog, daily_capacity)},
                     treated \in {FloatPatientsTreated(daily_capacity, current_backlog)} :
                    \E backlog \in {FloatNextBacklog(current_backlog, treated,
                                                     c.DailyArrivals)} :
                       /\ current_wait' = wait
                       /\ patients_treated' = treated
                       /\ current_backlog' = backlog
                       /\ clamped' = (clamped \/ DoubleLess(treated, daily_capacity))
                       /\ day' = day + 1
                       /\ detailed_results' = Append(detailed_results,
                              FloatDailyRecord(c.Specialty, day + 1, backlog, wait, treated))
                       /\ UNCHANGED <<pc, raised>>
    /\ UNCHANGED <<user_config, simulation_days, results, row>>
    /\ UNCHANGED callvars

\* line 268: the table is returned
FloatReturnTables ==
    /\ pc = "simulate"
    /\ RowFinished
    /\ row = Len(user_config)
    /\ pc' = "done"
    /\ UNCHANGED <<user_config, simulation_days, results, detailed_results, row,
                   day, current_backlog, current_wait, patients_treated, raised,
                   clamped>>
    /\ UNCHANGED callvars

NextFloat ==
    \/ FloatNextSpecialty
    \/ FloatSimulateDay
    \/ FloatReturnTables

SpecFloat == InitFloat /\ [][NextFloat]_vars

\* The projector's closed form (lines 161-165) of the config at `row`, over
\* the days simulated so far: the float Python computes for
\* max(0, initial_backlog + net_daily * day).
ClosedFormSoFar ==
    LET c == user_config[row]
    IN  CHOOSE x \in
            { FloatFinalBacklog(c.InitialBacklog, net_daily, day) :
                net_daily \in { FloatNetDaily(c.DailyArrivals, daily_capacity) :
                                daily_capacity \in {FloatCapacityOf(row)} } } : TRUE

---------------------------------------------------------------------------
(* Properties.                                                             *)

\* The config a daily row belongs to (names are unique within a request).
ConfigNamed(name) ==
    CHOOSE c \in {user_config[k] : k \in 1..Len(user_config)} : c.Specialty = name

\* The capacity of the config the simulator is at.
RowCapacity ==
    SimDailyCapacity(user_config[row].Doctors, user_config[row].NonDoctors,
                     user_config[row].DoctorRate, user_config[row].NonDoctorRate)

\* The summary call of config i has been made (it returned or it raised).
MetricsCalled(i) ==
    \/ i <= Len(results)
    \/ pc = "raised" /\ row = 0 /\ i = Len(results) + 1

\* C1: for every valid config the backlog carried by the day loop is >= 0
\* after every day, and every emitted daily row has Backlog >= 0.
C1_BacklogNonNegative ==
    /\ (row >= 1 /\ Valid(user_config[row])) => current_backlog >= 0
    /\ \A i \in 1..Len(detailed_results) :
          Valid(ConfigNamed(detailed_results[i].Specialty))
              => detailed_results[i].Backlog >= 0

\* C1 witness: a valid config, some days in, whose capacity exceeds the
\* backlog it holds (treatment is clamped, the backlog stays >= 0).
C1_Witness ==
    /\ pc = "simulate" /\ row >= 1 /\ day >= 2
    /\ Valid(user_config[row])
    /\ RowCapacity > current_backlog
    /\ detailed_results[Len(detailed_results)].Backlog >= 1

\* C2: on every simulated day patients_treated is min(daily_capacity,
\* backlog before that day's treatment): at most the capacity, at most that
\* backlog, one of the two, and (for a config within the data model's
\* ranges) never negative; the row reports it through int().
C2_TreatedBounded ==
    [][ (pc = "simulate" /\ row >= 1 /\ day' = day + 1) =>
          /\ patients_treated' <= RowCapacity
          /\ patients_treated' <= current_backlog
          /\ patients_treated' \in {RowCapacity, current_backlog}
          /\ Valid(user_config[row]) => patients_treated' >= 0
          /\ detailed_results'[Len(detailed_results')].PatientsTreated
                 = PyInt(patients_treated', RateDen)
          /\ Valid(user_config[row]) =>
                 detailed_results'[Len(detailed_results')].PatientsTreated >= 0 ]_vars

\* C2 witness: a day on which a positive backlog below the capacity was
\* treated whole.
C2_Witness ==
    /\ pc = "simulate" /\ row >= 1 /\ day >= 1
    /\ Valid(user_config[row])
    /\ patients_treated > 0
    /\ patients_treated < RowCapacity

\* The daily table holds simulation_days rows per config, grouped by config
\* in request order, days 1..simulation_days ascending within each.
DetailShape ==
    /\ Len(detailed_results) = Len(user_config) * simulation_days
    /\ \A i \in 1..Len(detailed_results) :
          /\ detailed_results[i].Specialty
                 = user_config[((i - 1) \div simulation_days) + 1].Specialty
          /\ detailed_results[i].Day = ((i - 1) % simulation_days) + 1

\* run_detailed_simulation has ended: it returned or it raised.
SimulationEnded == pc = "done" \/ (pc = "raised" /\ row >= 1)

\* C3 (as claimed): for any request of valid configs and any horizon >= 1,
\* run_detailed_simulation ends by returning a table of exactly horizon rows
\* per specialty, in request order, days 1..horizon ascending.
C3_DetailComplete ==
    ( /\ simulation_days >= 1
      /\ \A k \in 1..Len(user_config) : Valid(user_config[k])
      /\ SimulationEnded )
        => (pc = "done" /\ DetailShape)

\* What the code does keep of C3: a table that is returned has the shape.
DetailShapeWhenReturned ==
    (pc = "done" /\ simulation_days >= 1) => DetailShape

\* The locals of the summary call of config i (scaled by RateDen); the call
\* assigns them (lines 161-196) before the one expression that can raise.
CapacityOf(i) ==
    DailyCapacity(user_config[i].Doctors, user_config[i].NonDoctors,
                  user_config[i].DoctorRate, user_config[i].NonDoctorRate)

NetDailyOf(i) == NetDaily(user_config[i].DailyArrivals, CapacityOf(i))

FinalBacklogOf(i) ==
    FinalBacklog(user_config[i].InitialBacklog, NetDailyOf(i), simulation_days)

StatusOf(i) == Status(FinalBacklogOf(i), user_config[i].InitialBacklog)

TimeToClearOf(i) == TimeToClear(NetDailyOf(i), user_config[i].InitialBacklog)

\* The configs whose summary call has been made.
Called == {i \in 1..Len(user_config) : MetricsCalled(i)}

\* C4: the summary holds daily_capacity = doctors*doctor_rate +
\* non_doctors*non_doctor_rate, net_daily = daily_arrivals - daily_capacity,
\* final_backlog = max(0, initial_backlog + net_daily*horizon) and
\* backlog_change = final_backlog - initial_backlog (the last two reported
\* through int()), final_backlog never negative; Scenario A gives 132, 10,
\* 2900 and Scenario B gives 160, -5, 0.
C4_ClosedForm ==
    /\ \A i \in Called :
        LET c   == user_config[i]
            cap == c.Doctors * c.DoctorRate + c.NonDoctors * c.NonDoctorRate
            net == c.DailyArrivals * RateDen - cap
            lin == c.InitialBacklog * RateDen + net * simulation_days
        IN  /\ CapacityOf(i) = cap
            /\ NetDailyOf(i) = net
            /\ FinalBacklogOf(i) = (IF lin > 0 THEN lin ELSE 0)
            /\ FinalBacklogOf(i) >= 0
            /\ BacklogChange(FinalBacklogOf(i), c.InitialBacklog)
                   = FinalBacklogOf(i) - c.InitialBacklog * RateDen
    /\ \A i \in 1..Len(results) :
        LET c   == user_config[i]
            r   == results[i]
            cap == c.Doctors * c.DoctorRate + c.NonDoctors * c.NonDoctorRate
            net == c.DailyArrivals * RateDen - cap
            lin == c.InitialBacklog * RateDen + net * simulation_days
            fb  == IF lin > 0 THEN lin ELSE 0
        IN  /\ r.DailyCapacity = cap
            /\ r.NetDaily = net
            /\ r.FinalBacklog = PyInt(fb, RateDen)
            /\ r.BacklogChange = PyInt(fb - c.InitialBacklog * RateDen, RateDen)
            /\ r.FinalBacklog >= 0
            /\ (c = ScenarioA /\ simulation_days = DefaultDays) =>
                   /\ r.DailyCapacity = 132 * RateDen
                   /\ r.NetDaily = 10 * RateDen
                   /\ r.FinalBacklog = 2900
            /\ (c = ScenarioB /\ simulation_days = DefaultDays) =>
                   /\ r.DailyCapacity = 160 * RateDen
                   /\ r.NetDaily = (-5) * RateDen
                   /\ r.FinalBacklog = 0

\* C4 witness: Scenario B's summary, where max(0, .) clamps 870 - 900.
C4_Witness ==
    /\ simulation_days = DefaultDays
    /\ Len(results) = 1
    /\ user_config[1] = ScenarioB
    /\ results[1].FinalBacklog = 0
    /\ results[1].BacklogChange = -870

\* C5: the status is decided by ordered rules on (final_backlog,
\* initial_backlog), first match wins: Excellent iff final < 0.5*initial;
\* Improving iff not that and final < initial; Critical iff neither and
\* final > 1.5*initial; Alert otherwise.  Every call assigns exactly one of
\* the four, and a returned summary carries it.
C5_StatusRules ==
    \A i \in Called :
        LET f  == FinalBacklogOf(i)
            b  == user_config[i].InitialBacklog * RateDen
            st == StatusOf(i)
        IN  /\ i <= Len(results) => results[i].Status = st
            /\ st \in {"Excellent", "Improving", "Critical", "Alert"}
            /\ (st = "Excellent") <=> (2 * f < b)
            /\ (st = "Improving") <=> (~(2 * f < b) /\ f < b)
            /\ (st = "Critical")  <=> (~(2 * f < b) /\ ~(f < b) /\ 2 * f > 3 * b)
            /\ (st = "Alert")     <=> (~(2 * f < b) /\ ~(f < b) /\ ~(2 * f > 3 * b))

\* C5 witness: a summary of a valid config where rules 1 and 2 both match
\* (final < 0.5*initial < initial) and rule 1 wins.
C5_Witness ==
    \E i \in 1..Len(results) :
        /\ Valid(user_config[i])
        /\ 0 < FinalBacklogOf(i)
        /\ 2 * FinalBacklogOf(i) < user_config[i].InitialBacklog * RateDen
        /\ results[i].Status = "Excellent"

\* C6: whenever final_backlog equals initial_backlog the status is Alert,
\* for every initial_backlog >= 0, 0 included.
C6_EqualIsAlert ==
    \A i \in Called :
        ( /\ user_config[i].InitialBacklog >= 0
          /\ FinalBacklogOf(i) = user_config[i].InitialBacklog * RateDen )
            => /\ StatusOf(i) = "Alert"
               /\ i <= Len(results) => results[i].Status = "Alert"

\* C6 witness: the degenerate summary, initial_backlog = 0 and
\* final_backlog = 0, over a horizon of at least one day.
C6_Witness ==
    \E i \in 1..Len(results) :
        /\ simulation_days >= 1
        /\ user_config[i].InitialBacklog = 0
        /\ FinalBacklogOf(i) = 0
        /\ results[i].Status = "Alert"

\* C7: whenever net_daily >= 0 (0 included) months_to_clear is +infinity
\* and time_to_clear is "inf (Impossible)" when initial_backlog > 0 and
\* "N/A" when initial_backlog = 0.
C7_NeverClears ==
    \A i \in Called :
        LET c   == user_config[i]
            net == c.DailyArrivals * RateDen
                     - (c.Doctors * c.DoctorRate + c.NonDoctors * c.NonDoctorRate)
            ttc == TimeToClearOf(i)
        IN  net >= 0 =>
              /\ ttc.inf
              /\ c.InitialBacklog > 0 => ttc.label = "inf (Impossible)"
              /\ c.InitialBacklog = 0 => ttc.label = "N/A"
              /\ i <= Len(results) =>
                   /\ results[i].MonthsToClear.inf
                   /\ results[i].TimeToClear.label = ttc.label

\* C7 witness: Scenario D, net_daily = 0 exactly with a backlog to clear.
C7_Witness ==
    \E i \in 1..Len(results) :
        /\ Valid(user_config[i])
        /\ results[i].NetDaily = 0
        /\ user_config[i].InitialBacklog > 0
        /\ results[i].TimeToClear.label = "inf (Impossible)"
        /\ results[i].MonthsToClear.inf

\* C8 (as claimed): for a valid config with daily_capacity = 0 the call of
\* calculate_metrics does not raise: it returns a summary whose utilisation
\* is a sentinel, not a number.
C8_ZeroCapacityReturns ==
    \A i \in 1..Len(user_config) :
        LET c == user_config[i]
        IN  ( /\ Valid(c)
              /\ DailyCapacity(c.Doctors, c.NonDoctors, c.DoctorRate, c.NonDoctorRate) = 0
              /\ MetricsCalled(i) )
                => (i <= Len(results) /\ results[i].Utilisation \notin Int)

\* C9 (as claimed): for a valid config with daily_capacity = 0 the day loop
\* never divides by the capacity: no day raises, whatever the backlog.
C9_ZeroCapacityDays ==
    ( /\ row >= 1
      /\ Valid(user_config[row])
      /\ RowCapacity = 0 )
        => ~(pc = "raised" /\ raised = "ZeroDivisionError")

\* C10 (as claimed): a config that violates a range constraint is rejected
\* before any work is done for it: no summary row and no daily row exists
\* for it.
C10_InvalidRejected ==
    \A i \in 1..Len(user_config) :
        ~Valid(user_config[i]) =>
            /\ Len(results) < i
            /\ \A j \in 1..Len(detailed_results) :
                   detailed_results[j].Specialty # user_config[i].Specialty

\* C11 (as claimed): a request with no configs or with horizon <= 0 is not
\* an error and yields empty tables: nothing is raised, there are no summary
\* rows and no daily rows.
C11_EmptyTables ==
    (Len(user_config) = 0 \/ simulation_days <= 0) =>
        /\ pc # "raised"
        /\ results = <<>>
        /\ detailed_results = <<>>

\* C11, the two ways in which it fails at a horizon <= 0: both tables are
\* returned with a summary row for each of two configs (lines 574-586 do not
\* look at the horizon), and calculate_metrics raises on a config of
\* capacity 0 (line 213, the fault of C8).
C11_SummaryRowsCase ==
    /\ pc = "done"
    /\ simulation_days <= 0
    /\ Len(user_config) = 2
    /\ Len(results) = 2
    /\ detailed_results = <<>>

C11_RaisedCase ==
    /\ pc = "raised"
    /\ raised = "ZeroDivisionError"
    /\ simulation_days <= 0
    /\ row = 0
    /\ CapacityOf(Len(results) + 1) = 0

\* The configs handed to the call in progress.
GivenConfig == IF alone = 0 THEN first.config ELSE <<first.config[alone]>>

\* A call has ended: it returned its tables or it raised.
CallEnded == pc \in {"done", "raised"}

\* C12: a call leaves the configs it was given as they were, and a later
\* call on the same request, whatever calls came in between, ends as the
\* first one did: the same summary rows, the same daily rows, the same
\* exception if any.
C12_SameInputSameOutput ==
    /\ user_config = GivenConfig
    /\ (calls >= 2 /\ alone = 0 /\ CallEnded) => Outcome = first

\* C12 witness: the third call, on the whole two-config request again after
\* a call on one config alone, has returned two summary rows and daily rows.
C12_Witness ==
    /\ calls = 3
    /\ alone = 0
    /\ pc = "done"
    /\ Len(results) = 2
    /\ Len(detailed_results) >= 4
    /\ Len(first.detail) >= 4

\* The daily rows of the specialty `name` in a table.
RowsOf(table, name) == SelectSeq(table, LAMBDA r : r.Specialty = name)

\* The daily table the first call, on the whole request, handed back (none
\* when it raised).
BatchDetail == IF first.pc = "done" THEN first.detail ELSE <<>>

\* C13: the daily rows run_detailed_simulation gives a specialty when it is
\* simulated alone are the rows the specialty has in the table of the batch,
\* whatever else is in the batch.
C13_SameAsAlone ==
    (entry = "simulate" /\ calls >= 2 /\ alone # 0 /\ pc = "done")
        => detailed_results = RowsOf(BatchDetail, user_config[1].Specialty)

\* What the code does keep of C13: when the call on the batch returned, the
\* rows of a specialty simulated alone are its rows in the batch's table.
SameAsAloneWhenReturned ==
    (calls >= 2 /\ alone # 0 /\ pc = "done" /\ first.pc = "done")
        => detailed_results = RowsOf(first.detail, user_config[1].Specialty)

\* C14: with a horizon of 0 days the summary call of every valid config
\* computes final_backlog = initial_backlog and backlog_change = 0, and a
\* returned summary row reports them so.
C14_ZeroHorizon ==
    simulation_days = 0 =>
        \A i \in Called :
            LET c == user_config[i]
            IN  Valid(c) =>
                  /\ FinalBacklogOf(i) = c.InitialBacklog * RateDen
                  /\ BacklogChange(FinalBacklogOf(i), c.InitialBacklog) = 0
                  /\ i <= Len(results) =>
                        /\ results[i].FinalBacklog = c.InitialBacklog
                        /\ results[i].BacklogChange = 0

\* C14 witness: a summary row over 0 days for a valid config whose backlog
\* is positive and whose net flow is not 0.
C14_Witness ==
    /\ simulation_days = 0
    /\ Len(results) >= 1
    /\ Valid(user_config[1])
    /\ user_config[1].InitialBacklog >= 1
    /\ NetDailyOf(1) # 0
    /\ results[1].FinalBacklog = user_config[1].InitialBacklog

\* C15 (as claimed): for every valid config with net_daily < 0, whatever
\* initial_backlog >= 0 (0 included), months_to_clear is the finite quotient
\* initial_backlog / |net_daily| / 30 and time_to_clear is a month count.
C15_FiniteWhenDraining ==
    \A i \in Called :
        LET c   == user_config[i]
            ttc == TimeToClearOf(i)
        IN  (Valid(c) /\ NetDailyOf(i) < 0 /\ c.InitialBacklog >= 0) =>
              /\ ~ttc.inf
              /\ ttc.label = "months"
              /\ ttc.n * 30 * Abs(NetDailyOf(i)) = c.InitialBacklog * RateDen * ttc.d

\* C15 (amended): for every valid config with net_daily < 0 and
\* initial_backlog > 0, months_to_clear is the finite quotient
\* initial_backlog / |net_daily| / 30 and time_to_clear is a whole number of
\* months, the nearest to that quotient; with initial_backlog = 0 the call
\* gives "N/A" and an infinite months_to_clear, whatever net_daily is.
C15_ClearanceTime ==
    \A i \in Called :
        LET c   == user_config[i]
            ttc == TimeToClearOf(i)
        IN  Valid(c) =>
              /\ (NetDailyOf(i) < 0 /\ c.InitialBacklog > 0) =>
                    /\ ~ttc.inf
                    /\ ttc.d > 0
                    /\ ttc.n * 30 * Abs(NetDailyOf(i))
                           = c.InitialBacklog * RateDen * ttc.d
                    /\ ttc.label = "months"
                    /\ ttc.months >= 0
                    /\ 2 * Abs(ttc.months * ttc.d - ttc.n) <= ttc.d
              /\ c.InitialBacklog = 0 =>
                    /\ ttc.inf
                    /\ ttc.label = "N/A"
              /\ i <= Len(results) =>
                    /\ results[i].TimeToClear.label = ttc.label
                    /\ results[i].TimeToClear.months = ttc.months
                    /\ results[i].MonthsToClear.inf = ttc.inf

\* C15 witness: Scenario B's summary row, 870 / 5 / 30 = 5.8, "6 months".
C15_Witness ==
    /\ Len(results) = 1
    /\ user_config[1] = ScenarioB
    /\ NetDailyOf(1) < 0
    /\ results[1].TimeToClear.label = "months"
    /\ results[1].TimeToClear.months = 6
    /\ ~results[1].MonthsToClear.inf

\* C16: on every simulated day the backlog loses min(daily_capacity,
\* backlog) and then gains daily_arrivals, and the row of that day carries
\* the backlog after the arrivals (through int()).
C16_TreatThenArrive ==
    [][ (pc = "simulate" /\ row >= 1 /\ day' = day + 1) =>
          LET c       == user_config[row]
              treated == IF RowCapacity <= current_backlog
                         THEN RowCapacity ELSE current_backlog
              rec     == detailed_results'[Len(detailed_results')]
          IN  /\ current_backlog'
                     = current_backlog - treated + c.DailyArrivals * RateDen
              /\ Len(detailed_results') = Len(detailed_results) + 1
              /\ rec.Specialty = c.Specialty
              /\ rec.Day = day'
              /\ rec.Backlog = PyInt(current_backlog', RateDen) ]_vars

\* C16 witness: a day that treated part of the backlog and let arrivals in,
\* the row carrying a backlog different from the one the day started with.
C16_Witness ==
    /\ pc = "simulate" /\ row >= 1 /\ day >= 2
    /\ patients_treated > 0
    /\ user_config[row].DailyArrivals * RateDen > patients_treated
    /\ detailed_results[Len(detailed_results)].Day = day
    /\ detailed_results[Len(detailed_results)].Backlog
           > detailed_results[Len(detailed_results) - 1].Backlog

\* C17: the wait of day d is computed from the backlog before that day's
\* treatment: backlog / daily_capacity when initial_backlog = 0 and the
\* backlog is > 0, initial_wait * backlog / initial_backlog when both are
\* > 0, and 0 otherwise, each computed in floats; the row reports the float
\* rounded, a whole number nearest to the exact value.  So day 1 reports
\* initial_wait when initial_backlog > 0 and 0 when initial_backlog = 0, and
\* no reported wait is negative.
C17_WaitBeforeTreatment ==
    [][ (pc = "simulate" /\ row >= 1 /\ day' = day + 1) =>
          LET c   == user_config[row]
              b   == current_backlog
              w   == current_wait'
              rec == detailed_results'[Len(detailed_results')]
          IN  /\ w.d # 0
              /\ (c.InitialBacklog = 0 /\ b > 0) => w.n * RowCapacity = b * w.d
              /\ (c.InitialBacklog > 0 /\ b > 0) =>
                     w.n * c.InitialBacklog * RateDen = c.InitialWait * b * w.d
              /\ (b <= 0 \/ c.InitialBacklog < 0) => w.n = 0
              /\ rec.WaitTime = PyRoundFloat(w)
              /\ 2 * Abs(rec.WaitTime * w.d - w.n) <= w.d
              /\ Valid(c) =>
                   /\ rec.WaitTime >= 0
                   /\ (day = 0 /\ c.InitialBacklog > 0) => rec.WaitTime = c.InitialWait
                   /\ (day = 0 /\ c.InitialBacklog = 0) => rec.WaitTime = 0 ]_vars

\* C17 witness: a config that started with no backlog, on a later day whose
\* wait was backlog / daily_capacity > 0.
C17_Witness ==
    /\ pc = "simulate" /\ row >= 1 /\ day >= 2
    /\ Valid(user_config[row])
    /\ user_config[row].InitialBacklog = 0
    /\ RowCapacity > 0
    /\ current_wait.n > 0
    /\ detailed_results[Len(detailed_results)].WaitTime >= 1

\* C17, a wait that is a half-integer in exact arithmetic: the float product
\* of line 250 lies above it and the row reports the next whole number, where
\* rounding the exact value would give the even one below (Genetics, day 30:
\* 45 * (899 / 870) = 46.50000000000001, reported 47).
C17_TieAboveCase ==
    /\ pc = "simulate" /\ row >= 1 /\ day >= 1
    /\ IsHalfInteger(current_wait.n, current_wait.d)
    /\ current_wait.m > 0
    /\ detailed_results[Len(detailed_results)].WaitTime
           = PyRound(current_wait.n, current_wait.d) + 1

\* C17, the float product below the half-integer (Paed Surg, day 89:
\* 45 * (616 / 880) = 31.499999999999996, reported 31).
C17_TieBelowCase ==
    /\ pc = "simulate" /\ row >= 1 /\ day >= 1
    /\ IsHalfInteger(current_wait.n, current_wait.d)
    /\ current_wait.m < 0
    /\ detailed_results[Len(detailed_results)].WaitTime
           = PyRound(current_wait.n, current_wait.d) - 1

\* C18: final_wait = initial_wait * (final_backlog / initial_backlog) when
\* both backlogs are > 0 and 0 otherwise, wait_change = final_wait -
\* initial_wait, each computed in floats; a returned summary row reports
\* both floats rounded, whole numbers nearest to the exact values.
C18_FinalWait ==
    \A i \in Called :
        LET c  == user_config[i]
            f  == FinalBacklogOf(i)
            fw == FinalWait(f, c.InitialBacklog, c.InitialWait)
            wc == WaitChange(fw, c.InitialWait)
            en == IF f > 0 /\ c.InitialBacklog > 0 THEN c.InitialWait * f ELSE 0
            ed == IF f > 0 /\ c.InitialBacklog > 0
                  THEN c.InitialBacklog * RateDen ELSE 1
        IN  /\ fw.d # 0 /\ wc.d # 0
            /\ fw.n * ed = en * fw.d
            /\ wc.n * ed = (en - c.InitialWait * ed) * wc.d
            /\ i <= Len(results) =>
                  /\ results[i].FinalWait = PyRoundFloat(fw)
                  /\ results[i].WaitChange = PyRoundFloat(wc)
                  /\ 2 * Abs(results[i].FinalWait * ed - en) <= ed
                  /\ 2 * Abs(results[i].WaitChange * ed
                                 - (en - c.InitialWait * ed)) <= ed

\* C18 witness: a summary row whose backlog grew from a positive start, the
\* final wait above the initial wait.
C18_Witness ==
    /\ Len(results) >= 1
    /\ user_config[1].InitialBacklog > 0
    /\ user_config[1].InitialWait > 0
    /\ results[1].FinalWait > results[1].InitialWait
    /\ results[1].WaitChange > 0

\* C18, a final wait that is a half-integer in exact arithmetic: the float of
\* line 171 lies above it (45 * (930 / 900) = 46.50000000000001, reported 47).
C18_FinalWaitTieCase ==
    /\ Len(results) >= 1
    /\ LET c  == user_config[1]
           fw == FinalWait(FinalBacklogOf(1), c.InitialBacklog, c.InitialWait)
       IN  /\ IsHalfInteger(fw.n, fw.d) /\ fw.m > 0
           /\ results[1].FinalWait = PyRound(fw.n, fw.d) + 1

\* C18, a wait change that is a half-integer in exact arithmetic: the float
\* of line 173 lies above it (49.50000000000001 - 45, reported 5).
C18_WaitChangeTieCase ==
    /\ Len(results) >= 1
    /\ LET c  == user_config[1]
           fw == FinalWait(FinalBacklogOf(1), c.InitialBacklog, c.InitialWait)
           wc == WaitChange(fw, c.InitialWait)
       IN  /\ IsHalfInteger(wc.n, wc.d) /\ wc.m > 0
           /\ results[1].WaitChange = PyRound(wc.n, wc.d) + 1

\* Rounding half away from zero of x = n/d, d > 0.
RoundHalfAway(n, d) ==
    IF n >= 0 THEN (2 * n + d) \div (2 * d) ELSE -((2 * (-n) + d) \div (2 * d))

\* C19 (as claimed): for a valid config and a horizon >= 0, every integer
\* field of a summary row and of a daily row is its unrounded value rounded
\* half away from zero.
C19_HalfAwayFromZero ==
    /\ \A i \in 1..Len(results) :
          LET c  == user_config[i]
              r  == results[i]
              f  == FinalBacklogOf(i)
              fw == FinalWait(f, c.InitialBacklog, c.InitialWait)
              wc == WaitChange(fw, c.InitialWait)
          IN  (Valid(c) /\ simulation_days >= 0) =>
                /\ r.FinalBacklog = RoundHalfAway(f, RateDen)
                /\ r.BacklogChange
                       = RoundHalfAway(BacklogChange(f, c.InitialBacklog), RateDen)
                /\ r.FinalWait = RoundHalfAway(fw.n, fw.d)
                /\ r.WaitChange = RoundHalfAway(wc.n, wc.d)
                /\ r.Utilisation
                       = RoundHalfAway(c.DailyArrivals * RateDen * 100, CapacityOf(i))
    /\ (pc = "simulate" /\ row >= 1 /\ day >= 1 /\ Valid(user_config[row])) =>
          LET rec == detailed_results[Len(detailed_results)]
          IN  /\ rec.Backlog = RoundHalfAway(current_backlog, RateDen)
              /\ rec.WaitTime = RoundHalfAway(current_wait.n, current_wait.d)
              /\ rec.PatientsTreated = RoundHalfAway(patients_treated, RateDen)

\* C20: for daily_capacity > 0 the reported utilisation is the whole number
\* nearest to daily_arrivals / daily_capacity * 100; it is above 100 only if
\* net_daily > 0 and below 100 only if net_daily < 0.
C20_Utilisation ==
    \A i \in 1..Len(results) :
        LET c   == user_config[i]
            u   == results[i].Utilisation
            cap == CapacityOf(i)
        IN  cap > 0 =>
              /\ 2 * Abs(u * cap - 100 * c.DailyArrivals * RateDen) <= cap
              /\ u > 100 => NetDailyOf(i) > 0
              /\ u < 100 => NetDailyOf(i) < 0

\* C20 witness: a summary row whose ratio is not a whole percentage and was
\* rounded up, below 100 with net_daily < 0.
C20_Witness ==
    /\ Len(results) >= 1
    /\ Valid(user_config[1])
    /\ CapacityOf(1) > 0
    /\ results[1].Utilisation * CapacityOf(1)
           > 100 * user_config[1].DailyArrivals * RateDen
    /\ results[1].Utilisation < 100
    /\ NetDailyOf(1) < 0

\* C20, a utilisation that is a half-integer in exact arithmetic: the float
\* of line 213 lies above 122.5 ((196 / 160) * 100 = 122.50000000000001,
\* reported 123) or below 57.5 ((92 / 160) * 100 = 57.49999999999999,
\* reported 57).
C20_TieAboveCase ==
    /\ Len(results) >= 1
    /\ 2 * 100 * user_config[1].DailyArrivals * RateDen = 245 * CapacityOf(1)
    /\ results[1].Utilisation = 123

C20_TieBelowCase ==
    /\ Len(results) >= 1
    /\ 2 * 100 * user_config[1].DailyArrivals * RateDen = 115 * CapacityOf(1)
    /\ results[1].Utilisation = 57

\* C21: for every valid config, after every simulated day d the simulator's
\* unrounded backlog is >= the closed form max(0, initial_backlog +
\* net_daily*d); the two are equal when no day 1..d treated less than
\* daily_capacity, so they differ only after a clamped day.  Both sides are
\* the floats the code computes.
C21_SimulatorAboveClosedForm ==
    (pc = "simulate" /\ row >= 1 /\ day >= 1) =>
        /\ ~DoubleLess(current_backlog, ClosedFormSoFar)
        /\ ~clamped => current_backlog = ClosedFormSoFar
        /\ current_backlog # ClosedFormSoFar => clamped

\* C21, the cases in which the claim holds of the floats: a clamped run
\* strictly above a positive closed form, and a draining run never clamped
\* that agrees with it.
C21_ClampedAboveCase ==
    /\ pc = "simulate" /\ row >= 1 /\ day >= 2
    /\ clamped
    /\ DoubleLess(DoubleZero, ClosedFormSoFar)
    /\ DoubleLess(ClosedFormSoFar, current_backlog)

C21_UnclampedCase ==
    /\ pc = "simulate" /\ row >= 1 /\ day >= 2
    /\ ~clamped
    /\ DoubleLess(FloatNetDaily(user_config[row].DailyArrivals, FloatCapacityOf(row)),
                  DoubleZero)
    /\ current_backlog = ClosedFormSoFar

\* C21, the cases in which it fails: no day clamped and the simulator's
\* backlog below the closed form by a rounding error, and no day clamped and
\* the two on different sides of an integer, so that the reported backlog
\* (line 263) and the reported final backlog (line 206) differ.
C21_BelowClosedFormCase ==
    /\ pc = "simulate" /\ row >= 1 /\ day >= 1
    /\ ~clamped
    /\ DoubleLess(current_backlog, ClosedFormSoFar)

C21_ReportedDifferCase ==
    /\ pc = "simulate" /\ row >= 1 /\ day >= 1
    /\ ~clamped
    /\ DoubleInt(current_backlog) # DoubleInt(ClosedFormSoFar)

\* C22: for every valid config (daily_arrivals >= 1) the simulator's backlog
\* after every day is at least daily_arrivals, so it is > 0 and every daily
\* row reports a backlog >= daily_arrivals >= 1, also when the summary's
\* final_backlog of the same config is 0 (Scenario B).
C22_NeverEmpty ==
    /\ (row >= 1 /\ day >= 1 /\ Valid(user_config[row])) =>
          /\ current_backlog >= user_config[row].DailyArrivals * RateDen
          /\ current_backlog > 0
    /\ \A i \in 1..Len(detailed_results) :
          LET c == ConfigNamed(detailed_results[i].Specialty)
          IN  Valid(c) =>
                /\ detailed_results[i].Backlog >= c.DailyArrivals
                /\ detailed_results[i].Backlog >= 1

\* C22 witness: Scenario B over 180 days, summary and daily table returned:
\* the summary's final backlog is 0, the last daily row still holds a backlog.
C22_Witness ==
    /\ pc = "done"
    /\ simulation_days = DefaultDays
    /\ user_config = <<ScenarioB>>
    /\ Len(results) = 1
    /\ results[1].FinalBacklog = 0
    /\ Len(detailed_results) = DefaultDays
    /\ detailed_results[DefaultDays].Backlog >= ScenarioB.DailyArrivals

C23_NegativeHorizonCase ==
    /\ simulation_days < 0
    /\ Len(results) >= 1
    /\ NetDailyOf(1) > 0
    /\ results[1].Status \in {"Excellent", "Improving"}

=============================================================================
